---- MODULE Spec2Model ----
(***************************************************************************)
(* A model of bun-plugin-coffeescript (src/src/index.ts).                  *)
(*                                                                         *)
(* The plugin factory Plugin(options) returns { name, setup }.  setup      *)
(* registers one onLoad callback with the host's builder under the filter  *)
(* /\.(coffee|cson|litcoffee)$/.  The callback dispatches on               *)
(* path.endsWith('.cson') to loadCson or loadCoffeeScript.  Both loaders   *)
(* are async functions with a single await (the file read); what follows   *)
(* the await runs to completion in one step of the event loop.             *)
(*                                                                         *)
(* Paths are sequences of one-character strings, so that the regular       *)
(* expression and endsWith are computed on the characters.  The compiler   *)
(* (coffeescript) and the parser (cson-parser) are external libraries;     *)
(* they are modelled as deterministic functions of their arguments.        *)
(***************************************************************************)
EXTENDS Naturals, Sequences, FiniteSets, TLC

VARIABLES
    fs,             \* the file system: path -> text, or Missing
    plugin,         \* the object Plugin(options) returned, or NoPlugin
    setupCalls,     \* the number of calls of the plugin's setup hook
    registrations,  \* the builder.onLoad calls made so far, in order
    loads,          \* the callback invocations, in order of invocation
    probe           \* a path the host tests against the registered filter

vars == <<fs, plugin, setupCalls, registrations, loads, probe>>

(***************************************************************************)
(* Bounds of the model.                                                    *)
(***************************************************************************)
MaxLoads == 2
MaxSetups == 1

(***************************************************************************)
(* Characters and paths.                                                   *)
(***************************************************************************)
Coffee == <<"c", "o", "f", "f", "e", "e">>
Cson == <<"c", "s", "o", "n">>
Litcoffee == <<"l", "i", "t">> \o Coffee
Dot == <<".">>
DotCoffee == Dot \o Coffee
DotCson == Dot \o Cson
DotLitcoffee == Dot \o Litcoffee

ACoffee == <<"a">> \o DotCoffee
BLitcoffee == <<"b">> \o DotLitcoffee
CCson == <<"c">> \o DotCson
DJs == <<"d", ".", "j", "s">>
ECsonCoffee == <<"e">> \o DotCson \o DotCoffee
XCoffee == <<"x">> \o DotCoffee

\* The files whose content the model varies; every other path is missing.
FilePaths == {ACoffee, BLitcoffee, CCson}
\* The paths the host presents to the callback.
HostPaths == FilePaths \cup {DJs, ECsonCoffee}

\* The paths the host tests against the filter: directory, stem, extension
\* and what follows the extension.
ProbeDirs == {<<>>, <<"s", "r", "c", "/">>, <<"/", "a", "b", "s", "/">>}
ProbeStems == {<<>>, <<"a", "p", "p">>, <<"x">> \o DotCson}
ProbeExts ==
    {DotCoffee, DotLitcoffee, DotCson, <<".", "j", "s">>, <<".", "t", "s">>,
     Coffee, Cson, <<".", "c", "o", "f", "f", "e">>}
ProbeTrailers == {<<>>, <<"s">>, <<".", "b", "a", "k">>, <<"/">>, <<"\n">>}
ProbePaths ==
    {d \o s \o e \o t :
        d \in ProbeDirs, s \in ProbeStems, e \in ProbeExts, t \in ProbeTrailers}

(***************************************************************************)
(* File contents.  TObj and TList are valid CoffeeScript and valid CSON,    *)
(* TBad (an unterminated string) is valid as neither.                      *)
(***************************************************************************)
TObj == "name: \"test-package\"\nversion: \"1.0.0\"\nconfig:\n  enabled: true\n  count: 42\n  items: [\"one\", \"two\", \"three\"]"
TList == "[\"item1\", \"item2\", \"item3\"]"
TBad == "key: \"value"
Texts == {TObj, TList, TBad}
\* A literate source: prose with an indented code block.
TLit == "# Introduction\n\nThis is a literate CoffeeScript file.\n\n    square = (x) -> x * x\n    console.log square(4)\n\nMore documentation here.\n"
Missing == "ENOENT"
NoText == ""

\* Bun.file(path).text(): the text of the file, or a rejection.
ReadFile(path) ==
    IF path \in DOMAIN fs /\ fs[path] # Missing
    THEN [ok |-> TRUE, text |-> fs[path]]
    ELSE [ok |-> FALSE, error |-> [name |-> "ENOENT", path |-> path]]

(***************************************************************************)
(* The configuration bag: a mapping from option names to values.           *)
(***************************************************************************)
OptionKeys == {"bare", "inlineMap", "filename"}
OptionValue(k) == IF k = "filename" THEN XCoffee ELSE TRUE
Bags == {[k \in K |-> OptionValue(k)] : K \in SUBSET OptionKeys}
EmptyBag == [k \in {} |-> TRUE]
Undefined == [undefined |-> TRUE]

\* The default parameter value: options: Options = {}.
DefaultOptions(arg) == IF arg = Undefined THEN EmptyBag ELSE arg

NoPlugin == [none |-> TRUE]
NoOptions == [none |-> TRUE]
NoResult == [none |-> TRUE]
NoError == [none |-> TRUE]

\* The identity of an object: the options object of the closure (the bag),
\* and the object the literal { filename: path, ...compilerOptions } creates
\* when invocation i evaluates it.
NoRef == <<>>
BagRef == <<"options">>
\* One options object kept by the module and refilled by every invocation.
OptionsObjectRefShared(i) == <<"loadCoffeeScript", 0>>
OptionsObjectRef(i) == <<"loadCoffeeScript", i>>

(***************************************************************************)
(* omit(obj, keys): the entries of obj whose key is not in the list keys.  *)
(***************************************************************************)
Includes(keys, key) == \E i \in 1..Len(keys) : keys[i] = key

\* omit with the filter dropped: every entry is kept.
omitNothing(obj, keys) == obj

\* omit with the filter's test inverted: only the listed keys are kept.
omitInverted(obj, keys) ==
    [k \in {key \in DOMAIN obj : Includes(keys, key)} |-> obj[k]]

omit(obj, keys) ==
    [k \in {key \in DOMAIN obj : ~Includes(keys, key)} |-> obj[k]]

\* The object literal { ...a, ...b }: a later entry replaces an earlier one.
ObjectSpread(a, b) ==
    [k \in DOMAIN a \cup DOMAIN b |-> IF k \in DOMAIN b THEN b[k] ELSE a[k]]

\* The options object loadCoffeeScript passes to the compiler:
\* { filename: path, ...omit(options, ['inlineMap']) }.
CompilerOptions(path, options) ==
    ObjectSpread([filename |-> path], omit(options, <<"inlineMap">>))

(***************************************************************************)
(* The external compiler, compile(text, options): a deterministic function *)
(* of its two arguments that throws on malformed source.  Its output is    *)
(* kept as the term (text, options), the most general such function.       *)
(***************************************************************************)
CompileThrows(text, options) == text = TBad

compile(text, options) ==
    IF CompileThrows(text, options)
    THEN [threw |-> TRUE,
          error |-> [name |-> "SyntaxError", from |-> "compile", text |-> text,
                     filename |-> options.filename]]
    ELSE [threw |-> FALSE, value |-> [compiledFrom |-> text, with |-> options]]

\* The compiler wraps its output in a function unless options.bare is set.
HasWrapper(contents) ==
    ~("bare" \in DOMAIN contents.with /\ contents.with.bare = TRUE)

\* The compiler reads its input as literate source when options.literate is
\* set.
LiterateMode(options) == "literate" \in DOMAIN options /\ options.literate = TRUE

(***************************************************************************)
(* The external parser, CSON.parse(text): a value tree, or a throw.        *)
(* A mapping keeps its entries in insertion order.                         *)
(***************************************************************************)
Str(s) == [type |-> "string", value |-> s]
Num(s) == [type |-> "number", value |-> s]
Bool(s) == [type |-> "boolean", value |-> s]
List(items) == [type |-> "list", items |-> items]
Mapping(entries) == [type |-> "mapping", entries |-> entries]
Entry(k, v) == [key |-> k, value |-> v]

TObjTree ==
    Mapping(<<Entry("name", Str("test-package")),
              Entry("version", Str("1.0.0")),
              Entry("config",
                    Mapping(<<Entry("enabled", Bool("true")),
                              Entry("count", Num("42")),
                              Entry("items",
                                    List(<<Str("one"), Str("two"), Str("three")>>))>>))>>)

TListTree == List(<<Str("item1"), Str("item2"), Str("item3")>>)

ParseThrows(text) == text \notin {TObj, TList}

CSONParse(text) ==
    IF ParseThrows(text)
    THEN [threw |-> TRUE,
          error |-> [name |-> "SyntaxError", from |-> "CSON.parse", text |-> text]]
    ELSE [threw |-> FALSE, value |-> IF text = TObj THEN TObjTree ELSE TListTree]

(***************************************************************************)
(* The filter /\.(coffee|cson|litcoffee)$/ and RegExp.prototype.test.      *)
(***************************************************************************)
\* The pattern without its $ anchor.
FilterRegExpUnanchored ==
    [literal |-> Dot, alternatives |-> {Coffee, Cson, Litcoffee}, anchoredEnd |-> FALSE]

FilterRegExp ==
    [literal |-> Dot, alternatives |-> {Coffee, Cson, Litcoffee}, anchoredEnd |-> TRUE]

\* A match may start anywhere; $ (no multiline flag) holds at the end of the
\* input only.
RegExpTest(re, s) ==
    \E start \in 1..(Len(s) + 1) :
        \E alt \in re.alternatives :
            LET pat == re.literal \o alt
                stop == start + Len(pat) - 1
            IN  /\ stop <= Len(s)
                /\ SubSeq(s, start, stop) = pat
                /\ re.anchoredEnd => stop = Len(s)

\* String.prototype.endsWith.
EndsWith(s, suffix) ==
    /\ Len(suffix) <= Len(s)
    /\ SubSeq(s, Len(s) - Len(suffix) + 1, Len(s)) = suffix

(***************************************************************************)
(* The loaders.  Each is given the outcome rd of its awaited read and      *)
(* yields how the invocation settles: whether the read succeeded, the      *)
(* number of reads started and of compiler or parser calls made, the text  *)
(* read, the options passed to the compiler (NoOptions when it was not     *)
(* called), and the result or the error.                                   *)
(***************************************************************************)
ReadRejected(error) ==
    [pc |-> "rejected", read |-> "failed", reads |-> 1, calls |-> 0,
     text |-> NoText, opts |-> NoOptions, result |-> NoResult, error |-> error]

Rejected(text, opts, error) ==
    [pc |-> "rejected", read |-> "ok", reads |-> 1, calls |-> 1,
     text |-> text, opts |-> opts, result |-> NoResult, error |-> error]

Resolved(text, opts, result) ==
    [pc |-> "resolved", read |-> "ok", reads |-> 1, calls |-> 1,
     text |-> text, opts |-> opts, result |-> result, error |-> NoError]

\* loadCson with the parser's error wrapped in a new error.
loadCsonWrapError(path, rd) ==
    IF ~rd.ok
    THEN ReadRejected(rd.error)
    ELSE LET parsed == CSONParse(rd.text)
         IN  IF parsed.threw
             THEN Rejected(rd.text, NoOptions,
                           [name |-> "Error", from |-> "loadCson",
                            cause |-> parsed.error])
             ELSE Resolved(rd.text, NoOptions,
                           [exports |-> parsed.value, loader |-> "object"])

\* loadCson with the parsed tree put under a 'default' key.
loadCsonDefaultExport(path, rd) ==
    IF ~rd.ok
    THEN ReadRejected(rd.error)
    ELSE LET parsed == CSONParse(rd.text)
         IN  IF parsed.threw
             THEN Rejected(rd.text, NoOptions, parsed.error)
             ELSE Resolved(rd.text, NoOptions,
                           [exports |-> Mapping(<<Entry("default", parsed.value)>>),
                            loader |-> "object"])

\* loadCson reading the path of the latest invocation (the path kept in a
\* variable that every invocation overwrites) instead of its own.
loadCsonSharedPath(path, rd) ==
    LET latest == ReadFile(loads[Len(loads)].path)
    IN  IF ~latest.ok
        THEN ReadRejected(latest.error)
        ELSE LET parsed == CSONParse(latest.text)
             IN  IF parsed.threw
                 THEN Rejected(latest.text, NoOptions, parsed.error)
                 ELSE Resolved(latest.text, NoOptions,
                               [exports |-> parsed.value, loader |-> "object"])

\* loadCson parsing a second time when the parser throws.
loadCsonRetry(path, rd) ==
    IF ~rd.ok
    THEN ReadRejected(rd.error)
    ELSE LET parsed == CSONParse(rd.text)
         IN  IF parsed.threw
             THEN [pc |-> "rejected", read |-> "ok", reads |-> 1, calls |-> 2,
                   text |-> rd.text, opts |-> NoOptions, result |-> NoResult,
                   error |-> CSONParse(rd.text).error]
             ELSE Resolved(rd.text, NoOptions,
                           [exports |-> parsed.value, loader |-> "object"])

loadCson(path, rd) ==
    IF ~rd.ok
    THEN ReadRejected(rd.error)
    ELSE LET parsed == CSONParse(rd.text)
         IN  IF parsed.threw
             THEN Rejected(rd.text, NoOptions, parsed.error)
             ELSE Resolved(rd.text, NoOptions,
                           [exports |-> parsed.value, loader |-> "object"])

\* loadCoffeeScript with a failed read taken as an empty file.
loadCoffeeScriptEmptyOnReadError(path, options, rd) ==
    LET text == IF rd.ok THEN rd.text ELSE NoText
        compilerOptions == CompilerOptions(path, options)
        compiled == compile(text, compilerOptions)
    IN  IF compiled.threw
        THEN Rejected(text, compilerOptions, compiled.error)
        ELSE Resolved(text, compilerOptions,
                      [contents |-> compiled.value, loader |-> "js"])

\* loadCoffeeScript with a banner line put before the compiler's output.
loadCoffeeScriptBanner(path, options, rd) ==
    IF ~rd.ok
    THEN ReadRejected(rd.error)
    ELSE LET compilerOptions == CompilerOptions(path, options)
             compiled == compile(rd.text, compilerOptions)
         IN  IF compiled.threw
             THEN Rejected(rd.text, compilerOptions, compiled.error)
             ELSE Resolved(rd.text, compilerOptions,
                           [contents |-> [banner |-> "// generated",
                                         compiledFrom |-> compiled.value.compiledFrom,
                                         with |-> compiled.value.with],
                            loader |-> "js"])

\* loadCoffeeScript with a counter of the loads settled so far written
\* into the output.
loadCoffeeScriptCounting(path, options, rd) ==
    IF ~rd.ok
    THEN ReadRejected(rd.error)
    ELSE LET compilerOptions == CompilerOptions(path, options)
             compiled == compile(rd.text, compilerOptions)
             count == Cardinality({j \in 1..Len(loads) : loads[j].pc # "reading"})
         IN  IF compiled.threw
             THEN Rejected(rd.text, compilerOptions, compiled.error)
             ELSE Resolved(rd.text, compilerOptions,
                           [contents |-> [output |-> compiled.value, build |-> count],
                            loader |-> "js"])

\* loadCoffeeScript setting literate for a path that ends in .litcoffee.
loadCoffeeScriptLiterateByExtension(path, options, rd) ==
    IF ~rd.ok
    THEN ReadRejected(rd.error)
    ELSE LET compilerOptions ==
                 IF EndsWith(path, DotLitcoffee)
                 THEN ObjectSpread(CompilerOptions(path, options), [literate |-> TRUE])
                 ELSE CompilerOptions(path, options)
             compiled == compile(rd.text, compilerOptions)
         IN  IF compiled.threw
             THEN Rejected(rd.text, compilerOptions, compiled.error)
             ELSE Resolved(rd.text, compilerOptions,
                           [contents |-> compiled.value, loader |-> "js"])

loadCoffeeScript(path, options, rd) ==
    IF ~rd.ok
    THEN ReadRejected(rd.error)
    ELSE LET compilerOptions == CompilerOptions(path, options)
             compiled == compile(rd.text, compilerOptions)
         IN  IF compiled.threw
             THEN Rejected(rd.text, compilerOptions, compiled.error)
             ELSE Resolved(rd.text, compilerOptions,
                           [contents |-> compiled.value, loader |-> "js"])

\* String.prototype.includes.
StringIncludes(s, sub) ==
    \E start \in 1..(Len(s) + 1) :
        /\ start + Len(sub) - 1 <= Len(s)
        /\ SubSeq(s, start, start + Len(sub) - 1) = sub

\* The callback's choice made with includes in place of endsWith.
DispatchIncludes(path) ==
    IF StringIncludes(path, DotCson) THEN "loadCson" ELSE "loadCoffeeScript"

\* The callback's choice of loader.
Dispatch(path) == IF EndsWith(path, DotCson) THEN "loadCson" ELSE "loadCoffeeScript"

(***************************************************************************)
(* State.                                                                  *)
(***************************************************************************)
NoProbe == [path |-> <<>>, tested |-> FALSE, matched |-> FALSE]

Init ==
    /\ fs \in [FilePaths -> Texts \cup {Missing}]
    /\ plugin = NoPlugin
    /\ setupCalls = 0
    /\ registrations = <<>>
    /\ loads = <<>>
    /\ probe = NoProbe

\* Plugin with the name built from the options given.
PluginNamedByOptions(arg) ==
    /\ plugin = NoPlugin
    /\ plugin' = [name |-> IF "bare" \in DOMAIN DefaultOptions(arg)
                            THEN "bun-plugin-coffeescript-bare"
                            ELSE "bun-plugin-coffeescript",
                  setup |-> "setup",
                  options |-> DefaultOptions(arg)]
    /\ UNCHANGED <<fs, setupCalls, registrations, loads, probe>>

\* Plugin(options): builds the plugin object; registers and reads nothing.
Plugin(arg) ==
    /\ plugin = NoPlugin
    /\ plugin' = [name |-> "bun-plugin-coffeescript", setup |-> "setup",
                  options |-> DefaultOptions(arg)]
    /\ UNCHANGED <<fs, setupCalls, registrations, loads, probe>>

\* setup making one builder.onLoad call per loader, each with its own
\* pattern.
SetupPerLoader ==
    /\ plugin # NoPlugin
    /\ setupCalls < MaxSetups
    /\ setupCalls' = setupCalls + 1
    /\ registrations' =
           registrations \o
               <<[filter |-> [literal |-> Dot, alternatives |-> {Cson},
                              anchoredEnd |-> TRUE],
                  callback |-> "onLoad"],
                 [filter |-> [literal |-> Dot, alternatives |-> {Coffee, Litcoffee},
                              anchoredEnd |-> TRUE],
                  callback |-> "onLoad"]>>
    /\ UNCHANGED <<fs, plugin, loads, probe>>

\* plugin.setup(builder): one builder.onLoad call.
Setup ==
    /\ plugin # NoPlugin
    /\ setupCalls < MaxSetups
    /\ setupCalls' = setupCalls + 1
    /\ registrations' =
           Append(registrations, [filter |-> FilterRegExp, callback |-> "onLoad"])
    /\ UNCHANGED <<fs, plugin, loads, probe>>

\* The host presents a path that matches a registered filter: the callback
\* picks the loader, which starts the read and awaits it.
OnLoad(path) ==
    /\ Len(loads) < MaxLoads
    /\ \E r \in 1..Len(registrations) : RegExpTest(registrations[r].filter, path)
    /\ loads' = Append(loads,
                       [path |-> path, loader |-> Dispatch(path), pc |-> "reading",
                        read |-> "pending", reads |-> 1, calls |-> 0,
                        text |-> NoText, opts |-> NoOptions, optsRef |-> NoRef,
                        result |-> NoResult, error |-> NoError])
    /\ UNCHANGED <<fs, plugin, setupCalls, registrations, probe>>

\* Invocation i settles with outcome, having passed the object ref to the
\* compiler (NoRef when it was not called).  The object's content is what
\* every holder of ref sees.
Settle(i, outcome, ref) ==
    loads' = [j \in DOMAIN loads |->
                 IF j = i
                 THEN [path |-> loads[i].path, loader |-> loads[i].loader,
                       pc |-> outcome.pc, read |-> outcome.read,
                       reads |-> outcome.reads, calls |-> outcome.calls,
                       text |-> outcome.text, opts |-> outcome.opts,
                       optsRef |-> ref,
                       result |-> outcome.result, error |-> outcome.error]
                 ELSE IF ref # NoRef /\ loads[j].optsRef = ref
                      THEN [loads[j] EXCEPT !.opts = outcome.opts]
                      ELSE loads[j]]

\* The continuation of loadCson with the parser's error swallowed: the
\* promise is then left pending.
LoadCsonResumeHangs(i) ==
    /\ loads[i].pc = "reading"
    /\ loads[i].loader = "loadCson"
    /\ ReadFile(loads[i].path).ok => ~CSONParse(ReadFile(loads[i].path).text).threw
    /\ Settle(i, loadCson(loads[i].path, ReadFile(loads[i].path)), NoRef)
    /\ UNCHANGED <<fs, plugin, setupCalls, registrations, probe>>

\* The continuation of a loadCson that is given the bag and reads the file
\* the bag names, when it names one.
LoadCsonResumeWithOptions(i) ==
    /\ loads[i].pc = "reading"
    /\ loads[i].loader = "loadCson"
    /\ LET path == IF "filename" \in DOMAIN plugin.options
                   THEN plugin.options.filename
                   ELSE loads[i].path
       IN  Settle(i, loadCson(path, ReadFile(path)), NoRef)
    /\ UNCHANGED <<fs, plugin, setupCalls, registrations, probe>>

\* The read of a loadCson invocation completes and the loader runs on.
LoadCsonResume(i) ==
    /\ loads[i].pc = "reading"
    /\ loads[i].loader = "loadCson"
    /\ Settle(i, loadCson(loads[i].path, ReadFile(loads[i].path)), NoRef)
    /\ UNCHANGED <<fs, plugin, setupCalls, registrations, probe>>

\* The continuation of loadCoffeeScript with 'inlineMap' deleted from the
\* bag itself (delete options.inlineMap) instead of from a copy.
LoadCoffeeScriptResumeDeleting(i) ==
    /\ loads[i].pc = "reading"
    /\ loads[i].loader = "loadCoffeeScript"
    /\ LET outcome == loadCoffeeScript(loads[i].path, plugin.options,
                                        ReadFile(loads[i].path))
       IN  Settle(i, outcome,
                  IF outcome.opts = NoOptions THEN NoRef ELSE OptionsObjectRef(i))
    /\ plugin' = [plugin EXCEPT !.options = omit(plugin.options, <<"inlineMap">>)]
    /\ UNCHANGED <<fs, setupCalls, registrations, probe>>

\* The continuation of loadCoffeeScript behind a cache keyed by path: a path
\* that an earlier invocation has settled is answered from that invocation.
LoadCoffeeScriptResumeCached(i) ==
    /\ loads[i].pc = "reading"
    /\ loads[i].loader = "loadCoffeeScript"
    /\ LET seen == {j \in 1..Len(loads) :
                       loads[j].path = loads[i].path /\ loads[j].pc # "reading"}
           outcome == IF seen = {}
                      THEN loadCoffeeScript(loads[i].path, plugin.options,
                                            ReadFile(loads[i].path))
                      ELSE loads[CHOOSE j \in seen : TRUE]
       IN  Settle(i, outcome,
                  IF outcome.opts = NoOptions THEN NoRef ELSE OptionsObjectRef(i))
    /\ UNCHANGED <<fs, plugin, setupCalls, registrations, probe>>

\* The read of a loadCoffeeScript invocation completes and the loader runs on.
LoadCoffeeScriptResume(i) ==
    /\ loads[i].pc = "reading"
    /\ loads[i].loader = "loadCoffeeScript"
    /\ LET outcome == loadCoffeeScript(loads[i].path, plugin.options,
                                        ReadFile(loads[i].path))
       IN  Settle(i, outcome,
                  IF outcome.opts = NoOptions THEN NoRef ELSE OptionsObjectRef(i))
    /\ UNCHANGED <<fs, plugin, setupCalls, registrations, probe>>

Next ==
    \/ \E arg \in Bags \cup {Undefined} : Plugin(arg)
    \/ Setup
    \/ \E path \in HostPaths : OnLoad(path)
    \/ \E i \in 1..Len(loads) : LoadCsonResume(i)
    \/ \E i \in 1..Len(loads) : LoadCoffeeScriptResume(i)

Spec == Init /\ [][Next]_vars

\* The same, with every started read completing: the continuation of each
\* invocation is eventually run by the event loop.
Fairness ==
    \A i \in 1..MaxLoads :
        /\ WF_vars(i \in 1..Len(loads) /\ LoadCsonResume(i))
        /\ WF_vars(i \in 1..Len(loads) /\ LoadCoffeeScriptResume(i))

InitLive ==
    /\ fs \in {f \in [FilePaths -> {TObj, TBad, Missing}] : f[BLitcoffee] = Missing}
    /\ plugin = NoPlugin
    /\ setupCalls = 0
    /\ registrations = <<>>
    /\ loads = <<>>
    /\ probe = NoProbe

NextLive ==
    \/ \E arg \in {Undefined, [bare |-> TRUE]} : Plugin(arg)
    \/ Setup
    \/ \E path \in FilePaths : OnLoad(path)
    \/ \E i \in 1..Len(loads) : LoadCsonResume(i)
    \/ \E i \in 1..Len(loads) : LoadCoffeeScriptResume(i)

SpecLive == InitLive /\ [][NextLive]_vars /\ Fairness

(***************************************************************************)
(* Files that change between loads: the files start absent and are         *)
(* written, rewritten and removed while the plugin is in use.              *)
(***************************************************************************)
WritablePaths == {ACoffee, CCson}

InitWrites ==
    /\ fs = [p \in FilePaths |-> Missing]
    /\ plugin = NoPlugin
    /\ setupCalls = 0
    /\ registrations = <<>>
    /\ loads = <<>>
    /\ probe = NoProbe

\* writeFile(path, text), or rm when text is Missing.
WriteFile(path, text) ==
    /\ fs[path] # text
    /\ fs' = [fs EXCEPT ![path] = text]
    /\ UNCHANGED <<plugin, setupCalls, registrations, loads, probe>>

NextWrites ==
    \/ \E arg \in {Undefined, [bare |-> TRUE]} : Plugin(arg)
    \/ Setup
    \/ \E path \in WritablePaths, text \in Texts \cup {Missing} : WriteFile(path, text)
    \/ \E path \in WritablePaths : OnLoad(path)
    \/ \E i \in 1..Len(loads) : LoadCsonResume(i)
    \/ \E i \in 1..Len(loads) : LoadCoffeeScriptResume(i)

SpecWrites == InitWrites /\ [][NextWrites]_vars

(***************************************************************************)
(* Literate sources: script files under either extension, and bags with    *)
(* and without the literate option.                                        *)
(***************************************************************************)
ScriptPaths == {ACoffee, BLitcoffee}
LiterateTexts == {TLit, TBad, Missing}
LiterateBags ==
    {EmptyBag, [literate |-> TRUE], [literate |-> FALSE], [inlineMap |-> TRUE],
     [literate |-> TRUE, inlineMap |-> TRUE], [filename |-> BLitcoffee],
     [literate |-> TRUE, filename |-> XCoffee]}

InitLiterate ==
    /\ fs \in {f \in [FilePaths -> LiterateTexts] : f[CCson] = Missing}
    /\ plugin = NoPlugin
    /\ setupCalls = 0
    /\ registrations = <<>>
    /\ loads = <<>>
    /\ probe = NoProbe

NextLiterate ==
    \/ \E arg \in LiterateBags \cup {Undefined} : Plugin(arg)
    \/ Setup
    \/ \E path \in ScriptPaths : OnLoad(path)
    \/ \E i \in 1..Len(loads) : LoadCoffeeScriptResume(i)

SpecLiterate == InitLiterate /\ [][NextLiterate]_vars

(***************************************************************************)
(* A compiler that writes to the options object it is given: during the    *)
(* call it may set a key of its own on that object.                        *)
(***************************************************************************)
AliasBags == {EmptyBag, [inlineMap |-> TRUE], [bare |-> TRUE, filename |-> XCoffee]}

InitAlias ==
    /\ fs \in {f \in [FilePaths -> {TObj, TBad, Missing}] :
                  f[CCson] = Missing /\ f[BLitcoffee] # Missing}
    /\ plugin = NoPlugin
    /\ setupCalls = 0
    /\ registrations = <<>>
    /\ loads = <<>>
    /\ probe = NoProbe

\* The read of a loadCoffeeScript invocation completes and the loader runs
\* on; when writes holds, the compiler marks the object it received.
LoadCoffeeScriptResumeCompilerWrites(i, writes) ==
    /\ loads[i].pc = "reading"
    /\ loads[i].loader = "loadCoffeeScript"
    /\ LET outcome == loadCoffeeScript(loads[i].path, plugin.options,
                                        ReadFile(loads[i].path))
           called == outcome.opts # NoOptions
           after == IF called /\ writes
                    THEN [outcome EXCEPT
                              !.opts = ObjectSpread(outcome.opts, [touched |-> i])]
                    ELSE outcome
       IN  Settle(i, after, IF called THEN OptionsObjectRef(i) ELSE NoRef)
    /\ UNCHANGED <<fs, plugin, setupCalls, registrations, probe>>

NextAlias ==
    \/ \E arg \in AliasBags : Plugin(arg)
    \/ Setup
    \/ \E path \in ScriptPaths : OnLoad(path)
    \/ \E i \in 1..Len(loads), writes \in BOOLEAN :
           LoadCoffeeScriptResumeCompilerWrites(i, writes)

SpecAlias == InitAlias /\ [][NextAlias]_vars

(***************************************************************************)
(* The filter alone: the host tests the registered pattern on a path.      *)
(***************************************************************************)
InitFilter ==
    /\ fs = [p \in FilePaths |-> Missing]
    /\ plugin = NoPlugin
    /\ setupCalls = 0
    /\ registrations = <<>>
    /\ loads = <<>>
    /\ probe \in {[path |-> p, tested |-> FALSE, matched |-> FALSE] : p \in ProbePaths}

FilterProbe ==
    /\ Len(registrations) >= 1
    /\ ~probe.tested
    /\ probe' = [path |-> probe.path, tested |-> TRUE,
                 matched |-> RegExpTest(registrations[1].filter, probe.path)]
    /\ UNCHANGED <<fs, plugin, setupCalls, registrations, loads>>

NextFilter ==
    \/ \E arg \in Bags \cup {Undefined} : Plugin(arg)
    \/ Setup
    \/ FilterProbe

SpecFilter == InitFilter /\ [][NextFilter]_vars

(***************************************************************************)
(* Properties.                                                             *)
(***************************************************************************)
LoadIds == 1..Len(loads)
Settled(l) == l.pc \in {"resolved", "rejected"}
CalledCompiler(l) == l.opts # NoOptions
RecognizedSuffixes == {DotCoffee, DotLitcoffee, DotCson}
BagWithout(bag, key) == [k \in DOMAIN bag \ {key} |-> bag[k]]

\* C1: in every script load the filename field of the options passed to the
\* compiler is the input path of that load, whatever the configuration bag
\* holds (a 'filename' key of the bag never overrides it).
C1_FilenameIsAlwaysThePath ==
    \A i \in LoadIds :
        CalledCompiler(loads[i]) => loads[i].opts.filename = loads[i].path

\* C2: the registered filter matches a path if and only if the path ends
\* with exactly one of '.coffee', '.litcoffee', '.cson'.
C2_FilterMatchesRecognizedSuffixesOnly ==
    probe.tested =>
        (probe.matched <=>
            Cardinality({suf \in RecognizedSuffixes : EndsWith(probe.path, suf)}) = 1)

\* A path where a recognized extension is followed by more characters has
\* been tested and was not matched.
C2_Witness ==
    /\ probe.tested
    /\ probe.path = <<"a", "p", "p">> \o DotCoffee \o <<".", "b", "a", "k">>
    /\ ~probe.matched

\* C3: every invocation is for a path the filter matches and is handled by
\* exactly one loader chosen by suffix: '.cson' by loadCson, resolving to
\* { exports, loader: 'object' }; '.coffee' and '.litcoffee' by
\* loadCoffeeScript, resolving to { contents, loader: 'js' }.
C3_DispatchBySuffix ==
    \A i \in LoadIds :
        LET l == loads[i]
            resolved == l.pc = "resolved"
        IN  /\ \E suf \in RecognizedSuffixes : EndsWith(l.path, suf)
            /\ EndsWith(l.path, DotCson) =>
                   /\ l.loader = "loadCson"
                   /\ resolved => /\ DOMAIN l.result = {"exports", "loader"}
                                  /\ l.result.loader = "object"
            /\ (EndsWith(l.path, DotCoffee) \/ EndsWith(l.path, DotLitcoffee)) =>
                   /\ l.loader = "loadCoffeeScript"
                   /\ resolved => /\ DOMAIN l.result = {"contents", "loader"}
                                  /\ l.result.loader = "js"

\* An object-notation load and a literate-script load have both resolved.
C3_Witness ==
    /\ \E i \in LoadIds : loads[i].path = CCson /\ loads[i].pc = "resolved"
    /\ \E i \in LoadIds : loads[i].path = BLitcoffee /\ loads[i].pc = "resolved"

\* C4: the options passed to the compiler never contain 'inlineMap', and
\* the key changes no outcome: each script load settles exactly as it does
\* for the same bag without the key, so a load that resolves without the
\* key resolves with it.
C4_InlineMapDropped ==
    \A i \in LoadIds :
        LET l == loads[i]
            without == loadCoffeeScript(l.path, BagWithout(plugin.options, "inlineMap"),
                                        ReadFile(l.path))
        IN  /\ CalledCompiler(l) => "inlineMap" \notin DOMAIN l.opts
            /\ (Settled(l) /\ l.loader = "loadCoffeeScript") =>
                   /\ without.pc = "resolved" => l.pc = "resolved"
                   /\ l.opts = without.opts
                   /\ l.result = without.result
                   /\ l.error = without.error

\* A script load has resolved under a bag that holds 'inlineMap'.
C4_Witness ==
    /\ plugin # NoPlugin
    /\ "inlineMap" \in DOMAIN plugin.options
    /\ \E i \in LoadIds : loads[i].loader = "loadCoffeeScript" /\ loads[i].pc = "resolved"

\* C5: the options the compiler receives are the bag minus 'inlineMap' plus
\* the filename field: every other key of the bag arrives with its value,
\* the sanitizer adds no key, and bare: true arrives as bare: true, so the
\* output has no wrapper.
C5_OtherKeysForwarded ==
    \A i \in LoadIds :
        LET l == loads[i]
            bag == plugin.options
        IN  CalledCompiler(l) =>
                /\ DOMAIN l.opts = (DOMAIN bag \ {"inlineMap"}) \cup {"filename"}
                /\ \A k \in DOMAIN bag \ {"inlineMap"} : l.opts[k] = bag[k]
                /\ ("bare" \in DOMAIN bag /\ bag.bare = TRUE) =>
                       /\ l.opts.bare = TRUE
                       /\ l.pc = "resolved" => ~HasWrapper(l.result.contents)

\* A script load has resolved under a bag that holds bare: true and
\* 'inlineMap'.
C5_Witness ==
    /\ plugin # NoPlugin
    /\ DOMAIN plugin.options = {"bare", "inlineMap"}
    /\ \E i \in LoadIds : loads[i].loader = "loadCoffeeScript" /\ loads[i].pc = "resolved"

\* C6: a load whose read fails (the file is missing or unreadable) rejects,
\* for both loaders: it is never resolved and carries no result.
C6_ReadFailureRejects ==
    \A i \in LoadIds :
        LET l == loads[i]
        IN  /\ (Settled(l) /\ ~ReadFile(l.path).ok) => l.read = "failed"
            /\ l.read = "failed" =>
                   /\ l.pc = "rejected"
                   /\ l.result = NoResult
                   /\ l.error = ReadFile(l.path).error

\* A script load and an object-notation load have both settled on a
\* missing file.
C6_Witness ==
    /\ \E i \in LoadIds :
           loads[i].loader = "loadCoffeeScript" /\ loads[i].read = "failed"
    /\ \E i \in LoadIds :
           loads[i].loader = "loadCson" /\ loads[i].read = "failed"

\* C7: when the compiler (script load) or the parser (object-notation load)
\* throws, the load rejects with that same error value and has no result.
C7_ThrownErrorPropagatesUnmodified ==
    \A i \in LoadIds :
        LET l == loads[i]
        IN  (Settled(l) /\ l.read = "ok") =>
                /\ (l.loader = "loadCoffeeScript" /\ compile(l.text, l.opts).threw) =>
                       /\ l.pc = "rejected"
                       /\ l.error = compile(l.text, l.opts).error
                       /\ l.result = NoResult
                /\ (l.loader = "loadCson" /\ CSONParse(l.text).threw) =>
                       /\ l.pc = "rejected"
                       /\ l.error = CSONParse(l.text).error
                       /\ l.result = NoResult

\* The compiler has thrown in one load and the parser in another.
C7_Witness ==
    /\ \E i \in LoadIds :
           /\ loads[i].loader = "loadCoffeeScript"
           /\ loads[i].read = "ok"
           /\ loads[i].pc = "rejected"
    /\ \E i \in LoadIds :
           /\ loads[i].loader = "loadCson"
           /\ loads[i].read = "ok"
           /\ loads[i].pc = "rejected"

\* C8: a resolved object-notation load exports the tree the parser returned
\* for the file's text, unchanged.
C8_ExportsAreTheParsedTree ==
    \A i \in LoadIds :
        LET l == loads[i]
        IN  (l.loader = "loadCson" /\ l.pc = "resolved") =>
                /\ l.text = fs[l.path]
                /\ ~CSONParse(l.text).threw
                /\ l.result.exports = CSONParse(l.text).value
                /\ l.result.loader = "object"

\* An object-notation load of a nested mapping has resolved.
C8_Witness ==
    \E i \in LoadIds :
        /\ loads[i].loader = "loadCson"
        /\ loads[i].pc = "resolved"
        /\ loads[i].text = TObj
        /\ loads[i].result.exports.type = "mapping"

\* C9: a resolved script load has as contents exactly what the compiler
\* returned for the text read from the path and the forwarded options, and
\* the loader tag 'js'.
C9_ContentsAreTheCompilerOutput ==
    \A i \in LoadIds :
        LET l == loads[i]
        IN  (l.loader = "loadCoffeeScript" /\ l.pc = "resolved") =>
                /\ l.text = ReadFile(l.path).text
                /\ l.opts = CompilerOptions(l.path, plugin.options)
                /\ ~compile(l.text, l.opts).threw
                /\ l.result = [contents |-> compile(l.text, l.opts).value, loader |-> "js"]

\* A script load has resolved.
C9_Witness ==
    \E i \in LoadIds :
        /\ loads[i].loader = "loadCoffeeScript"
        /\ loads[i].pc = "resolved"
        /\ loads[i].path = ACoffee

FileContent(path) == IF path \in DOMAIN fs THEN fs[path] ELSE Missing

Outcome(l) == [pc |-> l.pc, result |-> l.result, error |-> l.error]

AloneOutcome(path, content, bag) ==
    IF content = Missing
    THEN [pc |-> "rejected", result |-> NoResult,
          error |-> [name |-> "ENOENT", path |-> path]]
    ELSE IF EndsWith(path, DotCson)
    THEN LET parsed == CSONParse(content)
         IN  IF parsed.threw
             THEN [pc |-> "rejected", result |-> NoResult, error |-> parsed.error]
             ELSE [pc |-> "resolved",
                   result |-> [exports |-> parsed.value, loader |-> "object"],
                   error |-> NoError]
    ELSE LET sanitized == BagWithout(bag, "inlineMap")
             passed == [k \in DOMAIN sanitized \cup {"filename"} |->
                           IF k \in DOMAIN sanitized THEN sanitized[k] ELSE path]
             compiled == compile(content, passed)
         IN  IF compiled.threw
             THEN [pc |-> "rejected", result |-> NoResult, error |-> compiled.error]
             ELSE [pc |-> "resolved",
                   result |-> [contents |-> compiled.value, loader |-> "js"],
                   error |-> NoError]

\* C11: whatever the interleaving of the in-flight loads, each settled load
\* has the outcome it has when run alone, which depends only on its own
\* path, the content of its own file and the configuration bag.
C11_ConcurrentLoadsAreIndependent ==
    \A i \in LoadIds :
        Settled(loads[i]) =>
            Outcome(loads[i]) =
                AloneOutcome(loads[i].path, FileContent(loads[i].path), plugin.options)

\* Two loads of different files were in flight together and the one invoked
\* later has resolved while the earlier one still awaits its read.
C11_Witness ==
    /\ Len(loads) = 2
    /\ loads[1].path # loads[2].path
    /\ loads[1].pc = "reading"
    /\ loads[2].pc = "resolved"

\* C12: the configuration bag is never modified: once Plugin has taken it,
\* no step (setup, a load that resolves, a load that rejects) changes its
\* keys or values, 'inlineMap' included.
C12_BagIsNeverModified ==
    [][plugin # NoPlugin => plugin'.options = plugin.options]_vars

\* Under a bag that holds 'inlineMap', one script load has called the
\* compiler and another load has rejected; the bag still holds the key.
C12_Witness ==
    /\ plugin # NoPlugin
    /\ DOMAIN plugin.options = {"inlineMap", "filename"}
    /\ \E i \in LoadIds : CalledCompiler(loads[i]) /\ loads[i].pc = "resolved"
    /\ \E i \in LoadIds : loads[i].pc = "rejected"

\* C13: each call of setup makes exactly one builder.onLoad call, with one
\* pattern covering the three extensions and one callback; nothing else
\* registers.
C13_OneRegistrationPerSetup ==
    /\ Len(registrations) = setupCalls
    /\ \A r \in 1..Len(registrations) :
           /\ DOMAIN registrations[r] = {"filter", "callback"}
           /\ registrations[r].filter.alternatives = {Coffee, Litcoffee, Cson}
           /\ registrations[r].callback = "onLoad"

\* setup has been called and loads have since been invoked and settled.
C13_Witness ==
    /\ setupCalls >= 1
    /\ Len(registrations) >= 1
    /\ \E i \in LoadIds : Settled(loads[i])

\* C14: for every bag, and for none, Plugin returns an object whose name is
\* 'bun-plugin-coffeescript' and whose setup is the hook; the call itself
\* registers nothing, calls no setup and starts no load or file access.
C14_PluginObject ==
    /\ [](plugin # NoPlugin =>
              /\ {"name", "setup"} \subseteq DOMAIN plugin
              /\ plugin.name = "bun-plugin-coffeescript"
              /\ plugin.setup = "setup")
    /\ [][plugin' # plugin =>
              /\ plugin = NoPlugin
              /\ UNCHANGED <<fs, setupCalls, registrations, loads>>]_vars

\* Plugin has been called with bare: true and nothing else has happened.
C14_Witness ==
    /\ plugin # NoPlugin
    /\ DOMAIN plugin.options = {"bare"}
    /\ setupCalls = 0
    /\ registrations = <<>>
    /\ loads = <<>>

\* C15: an invocation starts exactly one read and calls the compiler or the
\* parser at most once, only after that read has succeeded: while the read
\* is pending or when it has failed no call was made, and a failed step is
\* not tried again.
C15_OneReadThenAtMostOneCall ==
    \A i \in LoadIds :
        LET l == loads[i]
        IN  /\ l.reads = 1
            /\ l.calls <= 1
            /\ l.calls = 1 => l.read = "ok"
            /\ l.read \in {"pending", "failed"} => (l.calls = 0 /\ l.opts = NoOptions)
            /\ l.pc = "rejected" => l.calls = (IF l.read = "ok" THEN 1 ELSE 0)

\* One load has rejected on its read and another on its compiler or parser
\* call.
C15_Witness ==
    /\ \E i \in LoadIds : loads[i].read = "failed" /\ loads[i].calls = 0
    /\ \E i \in LoadIds :
           loads[i].read = "ok" /\ loads[i].pc = "rejected" /\ loads[i].calls = 1

\* C16: provided its read completes, every invocation eventually settles,
\* and it settles once: it resolves with one of the two result shapes or
\* rejects with the first error met (the read error, else the compiler's or
\* parser's), and a settled invocation never changes again.
C16_SettlesExactlyOnce ==
    /\ \A i \in 1..MaxLoads :
           (Len(loads) >= i) ~> (Len(loads) >= i /\ Settled(loads[i]))
    /\ [](\A i \in LoadIds :
              LET l == loads[i]
              IN  /\ l.pc = "resolved" =>
                        /\ l.error = NoError
                        /\ \/ (DOMAIN l.result = {"contents", "loader"}
                                  /\ l.result.loader = "js")
                           \/ (DOMAIN l.result = {"exports", "loader"}
                                  /\ l.result.loader = "object")
                  /\ l.pc = "rejected" =>
                        /\ l.result = NoResult
                        /\ l.error.name = (IF l.read = "failed" THEN "ENOENT"
                                           ELSE "SyntaxError"))
    /\ [][\A i \in LoadIds : Settled(loads[i]) => loads'[i] = loads[i]]_vars

\* The first invocation has rejected on its read and the second one has
\* resolved.
C16_Witness ==
    /\ Len(loads) = 2
    /\ loads[1].pc = "rejected"
    /\ loads[1].read = "failed"
    /\ loads[2].pc = "resolved"

\* C17: nothing is cached.  Whatever was loaded before, a load settles with
\* the outcome of the content its file has when its read completes: after a
\* file has changed, a later load of the same path has the outcome of the new
\* content, so a path that failed can succeed later and the reverse.
C17_NoCaching ==
    [][\A i \in LoadIds :
          (loads[i].pc = "reading" /\ loads'[i].pc # "reading") =>
              /\ Outcome(loads'[i]) =
                     AloneOutcome(loads[i].path, FileContent(loads[i].path),
                                  plugin.options)
              /\ loads'[i].text =
                     (IF FileContent(loads[i].path) = Missing THEN NoText
                      ELSE FileContent(loads[i].path))]_vars

\* Two loads of the same script path have settled, the first rejected on a
\* missing file and the second resolved after the file was written.
C17_Witness ==
    /\ Len(loads) = 2
    /\ loads[1].path = ACoffee
    /\ loads[2].path = ACoffee
    /\ loads[1].pc = "rejected"
    /\ loads[1].read = "failed"
    /\ loads[2].pc = "resolved"
    /\ fs[ACoffee] # Missing

\* C18: the script loader treats .litcoffee and .coffee paths alike.  For
\* both, the options passed to the compiler are the sanitized bag merged with
\* the path as filename, the same for any two script loads apart from the
\* filename; 'literate' is among them exactly when the bag holds it, so a
\* .litcoffee file is compiled in literate mode only when the bag holds
\* literate: true.
C18_LitcoffeeIsTreatedAsCoffee ==
    /\ \A i \in LoadIds :
           CalledCompiler(loads[i]) =>
               LET l == loads[i]
                   bag == plugin.options
                   sanitized == BagWithout(bag, "inlineMap")
               IN  /\ DOMAIN l.opts = DOMAIN sanitized \cup {"filename"}
                   /\ \A k \in DOMAIN sanitized : l.opts[k] = sanitized[k]
                   /\ "filename" \notin DOMAIN sanitized => l.opts.filename = l.path
                   /\ "literate" \in DOMAIN l.opts <=> "literate" \in DOMAIN bag
                   /\ LiterateMode(l.opts) <=> LiterateMode(bag)
                   /\ l.pc = "resolved" =>
                          (LiterateMode(l.result.contents.with) <=> LiterateMode(bag))
    /\ \A i, j \in LoadIds :
           CalledCompiler(loads[i]) /\ CalledCompiler(loads[j]) =>
               BagWithout(loads[i].opts, "filename") =
                   BagWithout(loads[j].opts, "filename")

\* Under a bag without 'literate', a .litcoffee file and a .coffee file with
\* the same text have both been compiled, neither in literate mode.
C18_Witness ==
    /\ Len(loads) = 2
    /\ plugin # NoPlugin
    /\ "literate" \notin DOMAIN plugin.options
    /\ loads[1].path = BLitcoffee
    /\ loads[2].path = ACoffee
    /\ loads[1].pc = "resolved"
    /\ loads[2].pc = "resolved"
    /\ loads[1].text = TLit
    /\ loads[2].text = TLit
    /\ ~LiterateMode(loads[1].result.contents.with)

\* The outcome of parsing the file at path as object notation: a function of
\* the path and of the file's content.
CsonOutcome(path, content) ==
    IF content = Missing
    THEN [pc |-> "rejected", result |-> NoResult,
          error |-> [name |-> "ENOENT", path |-> path]]
    ELSE IF ParseThrows(content)
    THEN [pc |-> "rejected", result |-> NoResult, error |-> CSONParse(content).error]
    ELSE [pc |-> "resolved",
          result |-> [exports |-> CSONParse(content).value, loader |-> "object"],
          error |-> NoError]

\* C19: the outcome of loading a .cson path does not depend on the
\* configuration bag.  Under every bag a plugin instance can be created with
\* ('inlineMap', 'filename' and 'bare' included), a settled .cson load has
\* the result or the rejection fixed by its path and its file's content
\* alone, and no options object was built for it; so two instances with
\* different bags agree on the same file.
C19_CsonOutcomeIgnoresTheBag ==
    \A i \in LoadIds :
        (EndsWith(loads[i].path, DotCson) /\ Settled(loads[i])) =>
            /\ Outcome(loads[i]) = CsonOutcome(loads[i].path, FileContent(loads[i].path))
            /\ loads[i].opts = NoOptions
            /\ loads[i].optsRef = NoRef

\* Under a bag that holds 'bare', 'inlineMap' and 'filename', a .cson load
\* has resolved with the parsed tree.
C19_Witness ==
    /\ plugin # NoPlugin
    /\ DOMAIN plugin.options = {"bare", "inlineMap", "filename"}
    /\ \E i \in LoadIds :
           /\ loads[i].path = CCson
           /\ loads[i].pc = "resolved"
           /\ loads[i].result.exports = TObjTree

\* C20: every script load builds a new options object for its compiler
\* call.  The object of a load is neither the bag nor the object of another
\* load; it holds the sanitized bag and the load's own filename, a mark the
\* compiler wrote on it is the mark of that load's call, and no step of
\* another load, before, after or in between, changes it or the bag.
C20_OptionsObjectIsFresh ==
    /\ [](\A i \in LoadIds :
              CalledCompiler(loads[i]) =>
                  LET l == loads[i]
                  IN  /\ l.optsRef # NoRef
                      /\ l.optsRef # BagRef
                      /\ \A j \in LoadIds \ {i} : loads[j].optsRef # l.optsRef
                      /\ "touched" \in DOMAIN l.opts => l.opts.touched = i
                      /\ "filename" \notin DOMAIN plugin.options =>
                             l.opts.filename = l.path
                      /\ BagWithout(BagWithout(l.opts, "touched"), "filename") =
                             BagWithout(BagWithout(plugin.options, "inlineMap"),
                                        "filename"))
    /\ [][/\ \A j \in LoadIds :
                 loads[j].pc # "reading" => loads'[j].opts = loads[j].opts
          /\ plugin # NoPlugin => plugin'.options = plugin.options]_vars

\* Two script loads of different files have called the compiler, which
\* marked the object of the first call and not that of the second; each
\* object holds its own load's path as filename.
C20_Witness ==
    /\ Len(loads) = 2
    /\ CalledCompiler(loads[1])
    /\ CalledCompiler(loads[2])
    /\ loads[1].path # loads[2].path
    /\ "touched" \in DOMAIN loads[1].opts
    /\ "touched" \notin DOMAIN loads[2].opts
    /\ loads[1].opts.filename = loads[1].path
    /\ loads[2].opts.filename = loads[2].path

====
